---- MODULE Spec2Model ----
(***************************************************************************)
(* Model of function_app.py: four HTTP-triggered handlers                  *)
(* (processComplaint, saveResponse, GetRoles, GetSavedResponses) and the   *)
(* module-level configuration that runs when the function app is loaded.   *)
(*                                                                         *)
(* A handler is split into steps at its external calls (completion         *)
(* service, blob store, database), so that concurrent requests interleave  *)
(* exactly where the real ones can.  Everything a handler does between two *)
(* external calls is part of one step.                                     *)
(***************************************************************************)
EXTENDS Integers, Sequences, FiniteSets, TLC

\* ------------------------------------------------------------------ bounds

\* Number of request slots: requests that can be in flight at the same time.
NumReq == 2

\* Number of identifiers uuid.uuid4() can draw from in one run.
MaxIds == 2

\* Longest claims list a GetRoles request carries.
MaxClaims == 3

\* ------------------------------------------------------------- text values

\* Python's None, for values that are strings otherwise.
Null == "<None>"

\* bool(x) for a string or None.
Truthy(x) == x # Null /\ x # ""

\* Upstream message contents are sequences of tokens: a token is a run of
\* whitespace or a word.  None (no content) is [some |-> FALSE].
None == [some |-> FALSE]
Some(x) == [some |-> TRUE, val |-> x]

Whitespace == {" ", "\n"}

RECURSIVE lstrip(_)
lstrip(s) ==
    IF s = <<>> THEN s
    ELSE IF Head(s) \in Whitespace THEN lstrip(Tail(s)) ELSE s

RECURSIVE rstrip(_)
rstrip(s) ==
    IF s = <<>> THEN s
    ELSE IF s[Len(s)] \in Whitespace THEN rstrip(SubSeq(s, 1, Len(s) - 1)) ELSE s

\* str.strip(): leading and trailing whitespace removed, inner whitespace kept.
strip(s) == rstrip(lstrip(s))

CreditCards == <<"Credit", " ", "Cards">>
Channels == <<"Channels">>
Staff == <<"Staff">>
BankingSavings == <<"Banking", " ", "&", " ", "Savings">>

valid_categories == {CreditCards, Channels, Staff, BankingSavings}

\* As normalize_category, without the fallback.
normalize_category_no_fallback(content) == strip(content)

\* Lines 102-105: trim the classification text, fall back when it is no label.

normalize_category(content) ==
    LET category == strip(content)
    IN  IF category \notin valid_categories THEN BankingSavings ELSE category

\* ------------------------------------------------------------------ state

Req == 1..NumReq

VARIABLES
    env,        \* the environment variables that are set (to a non-empty value)
    startup,    \* how far loading the module has come, and how it ended
    rolesReq,   \* the GetRoles request being handled, and its response
    req,        \* per slot: the request being handled, its locals and response
    extCalls,   \* per slot: the external calls the request has issued, in order
    rows,       \* committed rows of ComplaintResponses, in insertion order
    blobs,      \* names of the objects stored in the container
    conns,      \* per slot: the request's database connection
    usedIds     \* identifiers uuid.uuid4() has returned so far

appVars == <<req, extCalls, rows, blobs, conns, usedIds>>

vars == <<env, startup, rolesReq, req, extCalls, rows, blobs, conns, usedIds>>

\* Line 24: os.getenv("STORAGE_CONTAINER_NAME").
STORAGE_CONTAINER_NAME ==
    IF "STORAGE_CONTAINER_NAME" \in env THEN "complaints" ELSE Null

NoResp == [status |-> 0, body |-> [text |-> ""]]

IdleReq == [handler |-> "idle", pc |-> "idle", input |-> [method |-> ""],
            loc |-> [none |-> TRUE], resp |-> NoResp]

\* func.HttpResponse(json.dumps(body), status_code=status, ...)
JsonResponse(status, body) == [status |-> status, body |-> body]

\* func.HttpResponse("Method not allowed. Use POST.", status_code=405)
MethodNotAllowed(verb) ==
    [status |-> 405, body |-> [text |-> "Method not allowed. Use " \o verb \o "."]]

\* A handler returns: the slot keeps the request and its response.
Return(r, resp) == req' = [req EXCEPT ![r].pc = "done", ![r].resp = resp]

\* The record of one call to a service client: what was called, and how it
\* ended ("pending" until it returns, then "ok" or "error").
Call(op, arg) == [op |-> op, arg |-> arg, result |-> "pending"]

Settled(calls, result) == [calls EXCEPT ![Len(calls)].result = result]

\* The request in slot r issues its first call.
Issue(r, call) == extCalls' = [extCalls EXCEPT ![r] = Append(@, call)]

\* The pending call of slot r ends with `result`, and `calls` are issued next.
Settle(r, result, calls) == extCalls' = [extCalls EXCEPT ![r] = Settled(@, result) \o calls]

IdleRoles == [pc |-> "idle", input |-> [method |-> ""], resp |-> NoResp]

\* pyodbc.connect() not yet called, or the connection closed.
NoConn == [open |-> FALSE, cursor |-> FALSE, pending |-> <<>>]

\* ---------------------------------------------------------- configuration

\* The seven parameters the module reads (lines 14-24), and the variable the
\* AzureOpenAI constructor falls back to when it is given no API version.
Required ==
    {"AZURE_OPENAI_ENDPOINT", "AZURE_OPENAI_API_KEY", "AZURE_OPENAI_DEPLOYMENT",
     "AZURE_OPENAI_API_VERSION", "SQL_CONNECTION_STRING",
     "STORAGE_CONNECTION_STRING", "STORAGE_CONTAINER_NAME"}

Params == Required \cup {"OPENAI_API_VERSION"}

Abort(msg) == startup' = [pc |-> "aborted", error |-> msg]

\* Lines 26-28.
check_openai_configuration ==
    /\ startup.pc = "openai"
    /\ IF ~({"AZURE_OPENAI_ENDPOINT", "AZURE_OPENAI_API_KEY",
              "AZURE_OPENAI_DEPLOYMENT"} \subseteq env)
       THEN Abort("Azure OpenAI configuration is incomplete.")
       ELSE startup' = [startup EXCEPT !.pc = "sql"]
    /\ UNCHANGED <<env, rolesReq, appVars>>

\* Lines 30-32.
check_sql_configuration ==
    /\ startup.pc = "sql"
    /\ IF "SQL_CONNECTION_STRING" \notin env
       THEN Abort("SQL configuration is incomplete.")
       ELSE startup' = [startup EXCEPT !.pc = "storage"]
    /\ UNCHANGED <<env, rolesReq, appVars>>

\* Lines 34-36.
check_storage_configuration ==
    /\ startup.pc = "storage"
    /\ IF "STORAGE_CONNECTION_STRING" \notin env
       THEN Abort("Storage configuration is incomplete.")
       ELSE startup' = [startup EXCEPT !.pc = "clients"]
    /\ UNCHANGED <<env, rolesReq, appVars>>

\* Lines 38-44: the two clients are constructed and the module has loaded.
\* AzureOpenAI(api_version=None) reads OPENAI_API_VERSION and raises ValueError
\* when that is unset too.
create_clients ==
    /\ startup.pc = "clients"
    /\ IF {"AZURE_OPENAI_API_VERSION", "OPENAI_API_VERSION"} \cap env = {}
       THEN Abort("Must provide either the api_version argument or OPENAI_API_VERSION")
       ELSE startup' = [startup EXCEPT !.pc = "serving"]
    /\ UNCHANGED <<env, rolesReq, appVars>>

InitStartup ==
    /\ env \in SUBSET Params
    /\ startup = [pc |-> "openai", error |-> ""]
    /\ rolesReq = IdleRoles
    /\ req = [r \in Req |-> IdleReq]
    /\ extCalls = [r \in Req |-> <<>>]
    /\ rows = <<>>
    /\ blobs = {}
    /\ conns = [r \in Req |-> NoConn]
    /\ usedIds = {}

NextStartup ==
    \/ check_openai_configuration
    \/ check_sql_configuration
    \/ check_storage_configuration
    \/ create_clients

\* Loading the module, from any environment.
SpecStartup == InitStartup /\ [][NextStartup]_vars

\* --------------------------------------------------------------- GetRoles

RoleClaimUri == "http://schemas.microsoft.com/ws/2008/06/identity/claims/role"

\* An entry of the claims list: a JSON object with its typ and val (Null: key
\* absent), or something that is no object (a string, a number, null).
ClaimObjects ==
    [obj : {TRUE},
     typ : {"roles", RoleClaimUri, "name"},
     val : {"complaintsysadmin", "complaintsysuser", "guest", "unknown", ""}]
    \cup {[obj |-> TRUE, typ |-> Null, val |-> "guest"],
          [obj |-> TRUE, typ |-> "roles", val |-> Null]}

NonObject == [obj |-> FALSE, typ |-> Null, val |-> Null]

ListsOf(items) == UNION {[1..k -> items] : k \in 0..MaxClaims}

\* The value under "claims": absent, null, a number, a string (iterating it
\* yields its characters, which are no objects) or a list.
ClaimsValues ==
    {[kind |-> "absent", items |-> <<>>],
     [kind |-> "null", items |-> <<>>],
     [kind |-> "number", items |-> <<>>],
     [kind |-> "string", items |-> <<>>],
     [kind |-> "string", items |-> <<NonObject, NonObject>>]}
    \cup {[kind |-> "list", items |-> l] : l \in ListsOf(ClaimObjects \cup {NonObject})}

\* req.get_json(): "invalid" (an absent body too) raises ValueError, "array" is
\* valid JSON whose top level is no object.
RolesBodies ==
    {[json |-> "invalid", claims |-> [kind |-> "absent", items |-> <<>>]],
     [json |-> "array", claims |-> [kind |-> "absent", items |-> <<>>]]}
    \cup {[json |-> "object", claims |-> c] : c \in ClaimsValues}

\* An exception no handler catches: the Functions host answers 500.
Unhandled(exception) == [status |-> 500, body |-> [exception |-> exception]]

\* Line 249: the values of the claims that are roles claims.
RECURSIVE role_values(_)
role_values(user_claims) ==
    IF user_claims = <<>> THEN <<>>
    ELSE LET claim == Head(user_claims)
         IN  (IF (claim.typ = "roles" \/ claim.typ = RoleClaimUri) /\ Truthy(claim.val)
              THEN <<claim.val>> ELSE <<>>) \o role_values(Tail(user_claims))

\* As append_role, but a guest keeps its name.
append_role_unprefixed(roles, role) ==
    IF role = "complaintsysadmin" THEN Append(roles, "complaintsysadmin")
    ELSE IF role = "complaintsysuser" THEN Append(roles, "complaintsysuser")
    ELSE IF role = "guest" THEN Append(roles, "guest")
    ELSE roles

\* Lines 257-265: one turn of the loop.
append_role(roles, role) ==
    IF role = "complaintsysadmin" THEN Append(roles, "complaintsysadmin")
    ELSE IF role = "complaintsysuser" THEN Append(roles, "complaintsysuser")
    ELSE IF role = "guest" THEN Append(roles, "temp_guest")
    ELSE roles

\* Lines 256-265: the loop over claim_roles.
RECURSIVE map_roles(_, _)
map_roles(roles, claim_roles) ==
    IF claim_roles = <<>> THEN roles
    ELSE map_roles(append_role(roles, Head(claim_roles)), Tail(claim_roles))

\* Lines 230-275.
get_roles(method, body) ==
    LET req_body == IF method = "POST" /\ body.json # "invalid" THEN body
                    ELSE [json |-> "object", claims |-> [kind |-> "absent", items |-> <<>>]]
        user_claims == req_body.claims
    IN  IF req_body.json # "object"
        THEN Unhandled("AttributeError")     \* req_body.get: line 246
        ELSE IF user_claims.kind \in {"null", "number"}
        THEN Unhandled("TypeError")          \* not iterable: line 249
        ELSE IF \E i \in 1..Len(user_claims.items) : ~user_claims.items[i].obj
        THEN Unhandled("AttributeError")     \* claim.get: line 249
        ELSE JsonResponse(200, [roles |-> map_roles(<<>>, role_values(user_claims.items))])

\* A GetRoles request is handled, from its arrival to its response.
get_roles_request ==
    /\ rolesReq.pc = "idle"
    /\ \E method \in {"GET", "POST"}, body \in RolesBodies :
        rolesReq' = [pc |-> "done",
                     input |-> [method |-> method, body |-> body],
                     resp |-> get_roles(method, body)]
    /\ UNCHANGED <<env, startup, appVars>>

\* ------------------------------------------------- processComplaint inputs

\* req.get_json(): "invalid" raises ValueError, "array" is valid JSON whose top
\* level is no object, "object" carries the two keys (Null: key absent).
ComplaintBodies ==
    {[json |-> "invalid", complaint |-> Null, findings |-> Null],
     [json |-> "array", complaint |-> Null, findings |-> Null],
     [json |-> "object", complaint |-> Null, findings |-> Null],
     [json |-> "object", complaint |-> "", findings |-> "refund issued"],
     [json |-> "object", complaint |-> "card charged twice", findings |-> Null],
     [json |-> "object", complaint |-> "card charged twice", findings |-> "refund issued"]}

CategoryCores ==
    valid_categories
    \cup {<<>>, <<"Loans">>, <<"staff">>, <<"Credit", "\n", "Cards">>}

\* Texts the classification call can return: a core with optional padding.
CategoryTexts ==
    {l \o c \o t : l \in {<<>>, <<" ">>}, c \in CategoryCores, t \in {<<>>, <<"\n">>}}

ResponseTexts == {<<" ", "We", " ", "apologise", "\n">>, <<>>}

\* client.chat.completions.create(...): it raises OpenAIError (an error or the
\* 10 s timeout), or returns a result whose first choice has the content given
\* (None: the message carries no content).
CompletionOutcomes(texts) ==
    {[raises |-> "OpenAIError", content |-> None]}
    \cup {[raises |-> "", content |-> c] : c \in {Some(t) : t \in texts} \cup {None}}

\* ------------------------------------------------------- processComplaint

\* Lines 76-86 and 91-101: the two completion calls.
ResponseCall == Call("create", "response")
CategoryCall == Call("create", "category")

\* Lines 47-86: the request arrives, is validated, and the drafting call goes out.
process_complaint_begin(r) ==
    /\ req[r].handler = "idle"
    /\ \E method \in {"POST", "GET"}, body \in ComplaintBodies :
        LET input == IF method = "POST" THEN [method |-> method, body |-> body]
                     ELSE [method |-> method]
            this == [IdleReq EXCEPT !.handler = "processComplaint", !.input = input]
            complaint == body.complaint
            findings == IF body.findings = Null THEN "" ELSE body.findings
        IN  IF method # "POST"
            THEN /\ req' = [req EXCEPT ![r] = [this EXCEPT !.pc = "done",
                                !.resp = MethodNotAllowed("POST")]]
                 /\ UNCHANGED extCalls
            ELSE IF body.json = "invalid"
            THEN \* get_json raises ValueError: line 115
                 /\ req' = [req EXCEPT ![r] = [this EXCEPT !.pc = "done",
                                !.resp = JsonResponse(400, [error |-> "Invalid JSON payload."])]]
                 /\ UNCHANGED extCalls
            ELSE IF body.json # "object"
            THEN \* req_body.get raises AttributeError: line 130
                 /\ req' = [req EXCEPT ![r] = [this EXCEPT !.pc = "done",
                                !.resp = JsonResponse(500,
                                    [error |-> "An error occurred while processing your request."])]]
                 /\ UNCHANGED extCalls
            ELSE IF ~Truthy(complaint)
            THEN /\ req' = [req EXCEPT ![r] = [this EXCEPT !.pc = "done",
                                !.resp = JsonResponse(400, [error |-> "Complaint text is required."])]]
                 /\ UNCHANGED extCalls
            ELSE /\ req' = [req EXCEPT ![r] = [this EXCEPT !.pc = "response_call",
                                !.loc = [complaint |-> complaint, findings |-> findings]]]
                 /\ Issue(r, ResponseCall)
    /\ UNCHANGED <<rows, blobs, conns, usedIds>>

\* As process_complaint_response, but a failed drafting call is swallowed and
\* the classification call goes out all the same.
process_complaint_response_swallow(r) ==
    /\ req[r].handler = "processComplaint"
    /\ req[r].pc = "response_call"
    /\ \E out \in CompletionOutcomes(ResponseTexts) :
        IF out.raises = "OpenAIError"
        THEN /\ req' = [req EXCEPT ![r].pc = "category_call",
                            ![r].loc = [complaint |-> req[r].loc.complaint,
                                        findings |-> req[r].loc.findings,
                                        response_result |-> Some(<<>>),
                                        generated_response |-> <<>>]]
             /\ Settle(r, "error", <<CategoryCall>>)
        ELSE /\ req' = [req EXCEPT ![r].pc = "category_call",
                            ![r].loc = [complaint |-> req[r].loc.complaint,
                                        findings |-> req[r].loc.findings,
                                        response_result |-> Some(<<>>),
                                        generated_response |-> <<>>]]
             /\ Settle(r, "ok", <<CategoryCall>>)
    /\ UNCHANGED <<rows, blobs, conns, usedIds>>

\* Lines 80-101: the drafting call returns; on success the classification call
\* goes out. A failure of the first call is answered at once.
process_complaint_response(r) ==
    /\ req[r].handler = "processComplaint"
    /\ req[r].pc = "response_call"
    /\ \E out \in CompletionOutcomes(ResponseTexts) :
        IF out.raises = "OpenAIError"
        THEN /\ Return(r, JsonResponse(500,
                    [error |-> "Failed to generate response due to OpenAI service issue."]))
             /\ Settle(r, "error", <<>>)
        ELSE IF ~out.content.some
        THEN \* None.strip() raises AttributeError: line 130
             /\ req' = [req EXCEPT ![r].pc = "done",
                            ![r].loc = [complaint |-> req[r].loc.complaint,
                                        findings |-> req[r].loc.findings,
                                        response_result |-> out.content],
                            ![r].resp = JsonResponse(500,
                                [error |-> "An error occurred while processing your request."])]
             /\ Settle(r, "ok", <<>>)
        ELSE /\ req' = [req EXCEPT ![r].pc = "category_call",
                            ![r].loc = [complaint |-> req[r].loc.complaint,
                                        findings |-> req[r].loc.findings,
                                        response_result |-> out.content,
                                        generated_response |-> strip(out.content.val)]]
             /\ Settle(r, "ok", <<CategoryCall>>)
    /\ UNCHANGED <<rows, blobs, conns, usedIds>>

\* Lines 95-113: the classification call returns and the result is built.
process_complaint_category(r) ==
    /\ req[r].handler = "processComplaint"
    /\ req[r].pc = "category_call"
    /\ \E out \in CompletionOutcomes(CategoryTexts) :
        LET loc == [complaint |-> req[r].loc.complaint,
                    findings |-> req[r].loc.findings,
                    response_result |-> req[r].loc.response_result,
                    generated_response |-> req[r].loc.generated_response,
                    category_result |-> out.content]
        IN  IF out.raises = "OpenAIError"
            THEN /\ Return(r, JsonResponse(500,
                        [error |-> "Failed to generate response due to OpenAI service issue."]))
                 /\ Settle(r, "error", <<>>)
            ELSE IF ~out.content.some
            THEN \* None.strip() raises AttributeError: line 130
                 /\ req' = [req EXCEPT ![r].pc = "done", ![r].loc = loc,
                                ![r].resp = JsonResponse(500,
                                    [error |-> "An error occurred while processing your request."])]
                 /\ Settle(r, "ok", <<>>)
            ELSE /\ req' = [req EXCEPT ![r].pc = "done", ![r].loc = loc,
                                ![r].resp = JsonResponse(200,
                                    [category |-> normalize_category(out.content.val),
                                     response |-> req[r].loc.generated_response])]
                 /\ Settle(r, "ok", <<>>)
    /\ UNCHANGED <<rows, blobs, conns, usedIds>>

\* ----------------------------------------------------------- saveResponse

\* The multipart form: Null is an absent field; document is the attached
\* file's name (Null: no file part).
CompleteForms ==
    [complaint : {Null, "card charged twice"},
     originalResponse : {"draft"},
     editedResponse : {"edited"},
     originalCategory : {"Staff", "Channels"},
     editedCategory : {"Staff"},
     document : {Null, "evidence.pdf"}]

\* A complete form with one of the four required fields absent or empty.
IncompleteForms ==
    LET f == [complaint |-> "card charged twice", originalResponse |-> "draft",
              editedResponse |-> "edited", originalCategory |-> "Staff",
              editedCategory |-> "Staff", document |-> "evidence.pdf"]
    IN  UNION {{[f EXCEPT !.originalResponse = x], [f EXCEPT !.editedResponse = x],
                [f EXCEPT !.originalCategory = x], [f EXCEPT !.editedCategory = x]}
               : x \in {Null, ""}}

SaveForms == CompleteForms \cup IncompleteForms

Ids == {"uuid-" \o ToString(i) : i \in 1..MaxIds}

\* As is_correct_category, but the flag is set whatever the categories are.
is_correct_category_always(original_category, edited_category) == TRUE

\* Line 164.

is_correct_category(original_category, edited_category) ==
    IF original_category # Null /\ edited_category # Null
    THEN original_category = edited_category
    ELSE FALSE

\* As missing_field, but only the two response fields are looked at.
missing_field_responses_only(form) ==
    ~(Truthy(form.originalResponse) /\ Truthy(form.editedResponse))

\* Line 154: not all([...]).
missing_field(form) ==
    ~(/\ Truthy(form.originalResponse)
      /\ Truthy(form.editedResponse)
      /\ Truthy(form.originalCategory)
      /\ Truthy(form.editedCategory))

\* As blob_name, but every attachment goes to one shared folder.
blob_name_flat(response_id, filename) == <<"uploads", filename>>

\* Lines 170-171: the blob's name, as path segments.

blob_name(response_id, filename) == <<response_id, filename>>

\* Line 174: blob_client.url. The empty string is the empty path.
blob_url(name) == <<"https://account.blob", STORAGE_CONTAINER_NAME>> \o name

\* Lines 187-191: the row handed to INSERT.
insert_row(loc) ==
    [ResponseId |-> loc.response_id,
     Complaint |-> loc.complaint,
     OriginalResponse |-> loc.original_response,
     EditedResponse |-> loc.edited_response,
     OriginalCategory |-> loc.original_category,
     EditedCategory |-> loc.edited_category,
     DocumentUrl |-> loc.document_url,
     SavedAt |-> "datetime.now",
     IsCorrectCategory |-> loc.is_correct_category]

SaveFailed == JsonResponse(500, [error |-> "An error occurred while saving the response."])
SaveDbFailed == JsonResponse(500, [error |-> "Failed to save response due to database issue."])

\* Lines 140-177: the request arrives and is validated; the identifier is drawn
\* and the first external call goes out: the upload when a file is attached,
\* the database connection otherwise.
save_response_begin(r) ==
    /\ req[r].handler = "idle"
    /\ \E method \in {"POST", "GET"}, form \in SaveForms :
        LET input == IF method = "POST" THEN [method |-> method, form |-> form]
                     ELSE [method |-> method]
            this == [IdleReq EXCEPT !.handler = "saveResponse", !.input = input]
        IN  IF method # "POST"
            THEN /\ req' = [req EXCEPT ![r] = [this EXCEPT !.pc = "done",
                                !.resp = MethodNotAllowed("POST")]]
                 /\ UNCHANGED <<extCalls, usedIds>>
            ELSE IF missing_field(form)
            THEN /\ req' = [req EXCEPT ![r] = [this EXCEPT !.pc = "done",
                                !.resp = JsonResponse(400,
                                    [error |-> "All response and category fields are required."])]]
                 /\ UNCHANGED <<extCalls, usedIds>>
            ELSE \E response_id \in Ids \ usedIds :
                LET loc == [complaint |-> IF form.complaint = Null THEN "Unknown"
                                          ELSE form.complaint,
                            original_response |-> form.originalResponse,
                            edited_response |-> form.editedResponse,
                            original_category |-> form.originalCategory,
                            edited_category |-> form.editedCategory,
                            file |-> form.document,
                            is_correct_category |->
                                is_correct_category(form.originalCategory, form.editedCategory),
                            response_id |-> response_id,
                            blob_name |-> <<>>,
                            document_url |-> <<>>]
                IN  /\ usedIds' = usedIds \cup {response_id}
                    /\ IF form.document = Null
                       THEN /\ req' = [req EXCEPT ![r] = [this EXCEPT !.pc = "connect",
                                            !.loc = loc]]
                            /\ Issue(r, Call("connect", "sql"))
                       ELSE IF STORAGE_CONTAINER_NAME = Null
                       THEN \* get_blob_client(container=None, ...) raises ValueError: line 205
                            /\ req' = [req EXCEPT ![r] = [this EXCEPT !.pc = "done",
                                            !.loc = loc,
                                            !.resp = JsonResponse(400,
                                                [error |-> "Invalid form data."])]]
                            /\ UNCHANGED extCalls
                       ELSE /\ req' = [req EXCEPT ![r] = [this EXCEPT !.pc = "upload",
                                            !.loc = [loc EXCEPT !.blob_name =
                                                blob_name(response_id, form.document)]]]
                            /\ Issue(r, Call("upload_blob", response_id))
    /\ UNCHANGED <<rows, blobs, conns>>

\* Lines 173-177: upload_blob returns or raises; on success the URL is kept and
\* the database connection is asked for.
save_response_upload(r) ==
    /\ req[r].handler = "saveResponse"
    /\ req[r].pc = "upload"
    /\ \E out \in {"ok", "Exception"} :
        IF out = "ok"
        THEN /\ blobs' = blobs \cup {req[r].loc.blob_name}
             /\ req' = [req EXCEPT ![r].pc = "connect",
                            ![r].loc.document_url = blob_url(req[r].loc.blob_name)]
             /\ Settle(r, "ok", <<Call("connect", "sql")>>)
        ELSE /\ Return(r, SaveFailed)
             /\ Settle(r, "error", <<>>)
             /\ UNCHANGED blobs
    /\ UNCHANGED <<rows, conns, usedIds>>

\* Lines 177-179: pyodbc.connect and conn.cursor; then the INSERT goes out.
save_response_connect(r) ==
    /\ req[r].handler = "saveResponse"
    /\ req[r].pc = "connect"
    /\ \E out \in {"ok", "connect raises", "cursor raises"} :
        IF out = "ok"
        THEN /\ conns' = [conns EXCEPT ![r] = [open |-> TRUE, cursor |-> TRUE, pending |-> <<>>]]
             /\ req' = [req EXCEPT ![r].pc = "execute"]
             /\ Settle(r, "ok", <<[Call("cursor", "sql") EXCEPT !.result = "ok"],
                                   Call("execute", "INSERT")>>)
        ELSE IF out = "connect raises"
        THEN /\ Return(r, SaveDbFailed)
             /\ Settle(r, "error", <<>>)
             /\ UNCHANGED conns
        ELSE /\ conns' = [conns EXCEPT ![r] = [open |-> TRUE, cursor |-> FALSE, pending |-> <<>>]]
             /\ Return(r, SaveDbFailed)
             /\ Settle(r, "ok", <<[Call("cursor", "sql") EXCEPT !.result = "error"]>>)
    /\ UNCHANGED <<rows, blobs, usedIds>>

\* Lines 179-193: cursor.execute(INSERT ...) returns or raises; then the commit
\* goes out.
save_response_execute(r) ==
    /\ req[r].handler = "saveResponse"
    /\ req[r].pc = "execute"
    /\ \E out \in {"ok", "pyodbc.Error"} :
        IF out = "ok"
        THEN /\ conns' = [conns EXCEPT ![r].pending = <<insert_row(req[r].loc)>>]
             /\ req' = [req EXCEPT ![r].pc = "commit"]
             /\ Settle(r, "ok", <<Call("commit", "sql")>>)
        ELSE /\ Return(r, SaveDbFailed)
             /\ Settle(r, "error", <<>>)
             /\ UNCHANGED conns
    /\ UNCHANGED <<rows, blobs, usedIds>>

\* As save_response_commit, but a failed commit deletes the uploaded blob.
save_response_commit_compensating(r) ==
    /\ req[r].handler = "saveResponse"
    /\ req[r].pc = "commit"
    /\ \E out \in {"ok", "pyodbc.Error"} :
        IF out = "ok"
        THEN /\ rows' = rows \o conns[r].pending
             /\ conns' = [conns EXCEPT ![r] = NoConn]
             /\ Return(r, JsonResponse(200,
                    [status |-> "Response and document saved successfully",
                     responseId |-> req[r].loc.response_id]))
             /\ Settle(r, "ok", <<[Call("close", "sql") EXCEPT !.result = "ok"]>>)
             /\ UNCHANGED blobs
        ELSE /\ Return(r, SaveDbFailed)
             /\ Settle(r, "error", <<>>)
             /\ blobs' = blobs \ {req[r].loc.blob_name}
             /\ UNCHANGED <<rows, conns>>
    /\ UNCHANGED <<usedIds>>

\* Lines 193-203: conn.commit() returns or raises; on success cursor and
\* connection are closed and the identifier is returned.
save_response_commit(r) ==
    /\ req[r].handler = "saveResponse"
    /\ req[r].pc = "commit"
    /\ \E out \in {"ok", "pyodbc.Error"} :
        IF out = "ok"
        THEN /\ rows' = rows \o conns[r].pending
             /\ conns' = [conns EXCEPT ![r] = NoConn]
             /\ Return(r, JsonResponse(200,
                    [status |-> "Response and document saved successfully",
                     responseId |-> req[r].loc.response_id]))
             /\ Settle(r, "ok", <<[Call("close", "sql") EXCEPT !.result = "ok"]>>)
        ELSE /\ Return(r, SaveDbFailed)
             /\ Settle(r, "error", <<>>)
             /\ UNCHANGED <<rows, conns>>
    /\ UNCHANGED <<blobs, usedIds>>

\* ------------------------------------------------------ GetSavedResponses

ListFailed ==
    JsonResponse(500, [error |-> "An error occurred while retrieving saved responses."])
ListDbFailed ==
    JsonResponse(500, [error |-> "Failed to retrieve saved responses due to database issue."])

\* Lines 291-293: the columns SELECTed, with the table's auto-assigned Id (the
\* row's position). Lines 301-303: SavedAt as an ISO string.
select_row(i) ==
    [Id |-> i,
     ResponseId |-> rows[i].ResponseId,
     Complaint |-> rows[i].Complaint,
     OriginalResponse |-> rows[i].OriginalResponse,
     EditedResponse |-> rows[i].EditedResponse,
     OriginalCategory |-> rows[i].OriginalCategory,
     EditedCategory |-> rows[i].EditedCategory,
     DocumentUrl |-> rows[i].DocumentUrl,
     SavedAt |-> "isoformat(" \o rows[i].SavedAt \o ")"]

\* Lines 280-288: the request arrives and the database connection is asked for.
get_saved_responses_begin(r) ==
    /\ req[r].handler = "idle"
    /\ \E method \in {"GET", "POST"} :
        LET this == [IdleReq EXCEPT !.handler = "GetSavedResponses",
                                    !.input = [method |-> method]]
        IN  IF method # "GET"
            THEN /\ req' = [req EXCEPT ![r] = [this EXCEPT !.pc = "done",
                                !.resp = MethodNotAllowed("GET")]]
                 /\ UNCHANGED extCalls
            ELSE /\ req' = [req EXCEPT ![r] = [this EXCEPT !.pc = "connect"]]
                 /\ Issue(r, Call("connect", "sql"))
    /\ UNCHANGED <<rows, blobs, conns, usedIds>>

\* Lines 288-290: pyodbc.connect and conn.cursor; then the SELECT goes out.
get_saved_responses_connect(r) ==
    /\ req[r].handler = "GetSavedResponses"
    /\ req[r].pc = "connect"
    /\ \E out \in {"ok", "connect raises", "cursor raises"} :
        IF out = "ok"
        THEN /\ conns' = [conns EXCEPT ![r] = [open |-> TRUE, cursor |-> TRUE, pending |-> <<>>]]
             /\ req' = [req EXCEPT ![r].pc = "execute"]
             /\ Settle(r, "ok", <<[Call("cursor", "sql") EXCEPT !.result = "ok"],
                                   Call("execute", "SELECT")>>)
        ELSE IF out = "connect raises"
        THEN /\ Return(r, ListDbFailed)
             /\ Settle(r, "error", <<>>)
             /\ UNCHANGED conns
        ELSE /\ conns' = [conns EXCEPT ![r] = [open |-> TRUE, cursor |-> FALSE, pending |-> <<>>]]
             /\ Return(r, ListDbFailed)
             /\ Settle(r, "ok", <<[Call("cursor", "sql") EXCEPT !.result = "error"]>>)
    /\ UNCHANGED <<rows, blobs, usedIds>>

\* Lines 290-313: the SELECT returns or raises; the rows are fetched and
\* formatted (either may raise), cursor and connection are closed and the
\* list is returned.
get_saved_responses_fetch(r) ==
    /\ req[r].handler = "GetSavedResponses"
    /\ req[r].pc = "execute"
    /\ \E out \in {"ok", "pyodbc.Error", "Exception"} :
        IF out = "ok"
        THEN /\ conns' = [conns EXCEPT ![r] = NoConn]
             /\ Return(r, JsonResponse(200,
                    [responses |-> [i \in 1..Len(rows) |-> select_row(i)]]))
             /\ Settle(r, "ok", <<[Call("close", "sql") EXCEPT !.result = "ok"]>>)
        ELSE /\ Return(r, IF out = "pyodbc.Error" THEN ListDbFailed ELSE ListFailed)
             /\ Settle(r, "error", <<>>)
             /\ UNCHANGED conns
    /\ UNCHANGED <<rows, blobs, usedIds>>

\* ------------------------------------------------------------ the runtime

\* A connection the handler left open is closed when the interpreter
\* finalizes the object, some time after the handler has returned; what it
\* had not committed is rolled back.
finalize_connection(r) ==
    /\ req[r].pc = "done"
    /\ conns[r].open
    /\ conns' = [conns EXCEPT ![r] = NoConn]
    /\ UNCHANGED <<req, extCalls, rows, blobs, usedIds>>


\* The handlers serve once the module has loaded: every variable the checks of
\* lines 26-36 look at is set, and the API version is (the client constructor
\* wants one); the container name, which nothing checks, may be missing.
Init ==
    /\ env \in {Params \ {"OPENAI_API_VERSION"},
                Params \ {"OPENAI_API_VERSION", "STORAGE_CONTAINER_NAME"}}
    /\ startup = [pc |-> "serving", error |-> ""]
    /\ rolesReq = IdleRoles
    /\ req = [r \in Req |-> IdleReq]
    /\ extCalls = [r \in Req |-> <<>>]
    /\ rows = <<>>
    /\ blobs = {}
    /\ conns = [r \in Req |-> NoConn]
    /\ usedIds = {}

Next ==
    /\ UNCHANGED <<env, startup, rolesReq>>
    /\ \E r \in Req :
        \/ process_complaint_begin(r)
        \/ process_complaint_response(r)
        \/ process_complaint_category(r)
        \/ save_response_begin(r)
        \/ save_response_upload(r)
        \/ save_response_connect(r)
        \/ save_response_execute(r)
        \/ save_response_commit(r)
        \/ get_saved_responses_begin(r)
        \/ get_saved_responses_connect(r)
        \/ get_saved_responses_fetch(r)
        \/ finalize_connection(r)

Spec == Init /\ [][Next]_vars

InitRoles ==
    /\ Init
    /\ env = Required

NextRoles ==
    \/ get_roles_request

\* GetRoles requests alone, of a module loaded with every parameter set.
SpecRoles == InitRoles /\ [][NextRoles]_vars


\* ------------------------------------------------------- claims under Spec

Handled(r, handler) == req[r].handler = handler /\ req[r].pc = "done"

\* The operations the request in slot r has called, in order.
Ops(r) == [i \in 1..Len(extCalls[r]) |-> extCalls[r][i].op]

\* text is label with nothing but whitespace before and after it.
IsPadded(text, label) ==
    \E i \in 1..Len(text), j \in 1..Len(text) :
        /\ SubSeq(text, i, j) = label
        /\ \A k \in 1..Len(text) : (k < i \/ k > j) => text[k] \in Whitespace

\* Both completion calls returned, each with a text.
BothReturnedText(r) ==
    /\ {"response_result", "category_result"} \subseteq DOMAIN req[r].loc
    /\ req[r].loc.response_result.some
    /\ req[r].loc.category_result.some

\* C1: when both completion calls return a text, processComplaint answers 200
\* with a category from the four labels: the label the classification text is
\* once trimmed, and "Banking & Savings" when it is none of them.
C1_CategoryInClosedSet ==
    \A r \in Req :
        (Handled(r, "processComplaint") /\ BothReturnedText(r)) =>
            LET text == req[r].loc.category_result.val
                body == req[r].resp.body
            IN  /\ req[r].resp.status = 200
                /\ body.category \in {CreditCards, Channels, Staff, BankingSavings}
                /\ \A l \in {CreditCards, Channels, Staff, BankingSavings} :
                        IsPadded(text, l) => body.category = l
                /\ (~\E l \in {CreditCards, Channels, Staff, BankingSavings} :
                        IsPadded(text, l)) => body.category = BankingSavings

\* One request answered with a padded label, another with the fallback for a
\* text that is no label.
C1_Witness ==
    \E r1, r2 \in Req :
        /\ Handled(r1, "processComplaint") /\ BothReturnedText(r1)
        /\ req[r1].loc.category_result.val = <<" ", "Credit", " ", "Cards", "\n">>
        /\ req[r1].resp.body.category = CreditCards
        /\ Handled(r2, "processComplaint") /\ BothReturnedText(r2)
        /\ req[r2].loc.category_result.val = <<"Loans">>
        /\ req[r2].resp.status = 200
        /\ req[r2].resp.body.category = BankingSavings

\* The request in slot r has left nothing behind: no call, no open connection,
\* no blob in its folder and no row under its identifier.
NoTrace(r) ==
    /\ extCalls[r] = <<>>
    /\ ~conns[r].open
    /\ "response_id" \in DOMAIN req[r].loc =>
        /\ \A b \in blobs : b[1] # req[r].loc.response_id
        /\ \A i \in 1..Len(rows) : rows[i].ResponseId # req[r].loc.response_id

RequiredFields == {"originalResponse", "editedResponse", "originalCategory", "editedCategory"}

\* C2: a 400 from processComplaint or saveResponse comes with no external call
\* made and no state left (so none is returned once a call has been attempted);
\* an empty or absent complaint, and a missing or empty required field, are
\* answered 400 in that way.
C2_ValidationBeforeCalls ==
    \A r \in Req :
        /\ (req[r].handler \in {"processComplaint", "saveResponse"}
                /\ req[r].resp.status = 400) => NoTrace(r)
        /\ (req[r].handler = "processComplaint" /\ req[r].input.method = "POST"
                /\ req[r].input.body.json = "object"
                /\ req[r].input.body.complaint \in {Null, ""})
            => (req[r].resp.status = 400 /\ NoTrace(r))
        /\ (req[r].handler = "saveResponse" /\ req[r].input.method = "POST"
                /\ \E f \in RequiredFields : req[r].input.form[f] \in {Null, ""})
            => (req[r].resp.status = 400 /\ NoTrace(r) /\ req[r].loc = IdleReq.loc)

\* A complaint-less request and a save without its edited category, both
\* answered 400, beside rows and blobs other requests could have written.
C2_Witness ==
    \E r1, r2 \in Req :
        /\ Handled(r1, "processComplaint")
        /\ req[r1].input.method = "POST"
        /\ req[r1].input.body.json = "object"
        /\ req[r1].input.body.complaint = ""
        /\ req[r1].resp.status = 400
        /\ Handled(r2, "saveResponse")
        /\ req[r2].input.method = "POST"
        /\ req[r2].input.form.editedCategory = ""
        /\ req[r2].input.form.document = "evidence.pdf"
        /\ req[r2].resp.status = 400

\* The slot whose request drew the identifier of row i.
SavedBy(i) == {r \in Req : /\ req[r].handler = "saveResponse"
                           /\ "response_id" \in DOMAIN req[r].loc
                           /\ req[r].loc.response_id = rows[i].ResponseId}

\* C3: every persisted row has IsCorrectCategory = (OriginalCategory =
\* EditedCategory), the two being the category fields its request submitted,
\* and a row saved without an attachment has an empty DocumentUrl.
C3_IsCorrectCategoryDerived ==
    \A i \in 1..Len(rows) :
        /\ rows[i].IsCorrectCategory = (rows[i].OriginalCategory = rows[i].EditedCategory)
        /\ SavedBy(i) # {}
        /\ \A r \in SavedBy(i) :
            /\ rows[i].OriginalCategory = req[r].input.form.originalCategory
            /\ rows[i].EditedCategory = req[r].input.form.editedCategory
            /\ req[r].input.form.document = Null => rows[i].DocumentUrl = <<>>

\* A row with equal categories and no attachment beside a row with differing
\* categories.
C3_Witness ==
    \E i, j \in 1..Len(rows) :
        /\ rows[i].OriginalCategory = "Staff" /\ rows[i].EditedCategory = "Staff"
        /\ rows[i].IsCorrectCategory
        /\ rows[i].DocumentUrl = <<>>
        /\ \E r \in SavedBy(i) : req[r].input.form.document = Null
        /\ rows[j].OriginalCategory = "Channels" /\ rows[j].EditedCategory = "Staff"
        /\ ~rows[j].IsCorrectCategory

\* C7: a request that has returned holds no open database connection.
C7_ConnectionsClosedOnReturn ==
    \A r \in Req : req[r].pc = "done" => ~conns[r].open

\* C8: processComplaint makes at most two completion calls, the drafting call
\* then the classification call, each once; when either fails the answer is a
\* 500 without category or response, and after a failed drafting call no
\* classification call is issued.
C8_CompletionFailureAborts ==
    \A r \in Req :
        req[r].handler = "processComplaint" =>
            /\ Len(extCalls[r]) <= 2
            /\ \A i \in 1..Len(extCalls[r]) :
                /\ extCalls[r][i].op = "create"
                /\ extCalls[r][i].arg = (IF i = 1 THEN "response" ELSE "category")
                /\ extCalls[r][i].result = "error" =>
                    /\ i = Len(extCalls[r])
                    /\ req[r].pc = "done"
                    /\ req[r].resp.status = 500
                    /\ DOMAIN req[r].resp.body = {"error"}

\* One request whose drafting call failed, another whose classification call
\* failed.
C8_Witness ==
    \E r1, r2 \in Req :
        /\ Handled(r1, "processComplaint")
        /\ Len(extCalls[r1]) = 1 /\ extCalls[r1][1].result = "error"
        /\ req[r1].resp.status = 500
        /\ Handled(r2, "processComplaint")
        /\ Len(extCalls[r2]) = 2 /\ extCalls[r2][2].result = "error"
        /\ req[r2].resp.status = 500

\* No saveResponse request is between its first step and its return.
NoSaveInFlight ==
    \A r \in Req : req[r].handler = "saveResponse" => req[r].pc = "done"

RowsOf(id) == {i \in 1..Len(rows) : rows[i].ResponseId = id}

\* C9 as stated: once the saves have returned, every attachment folder has
\* exactly one persisted row, and every row with a DocumentUrl has its blob.
C9_OneRowPerFolder ==
    NoSaveInFlight =>
        /\ \A b \in blobs : Cardinality(RowsOf(b[1])) = 1
        /\ \A i \in 1..Len(rows) :
            rows[i].DocumentUrl # <<>> =>
                \E b \in blobs : b[1] = rows[i].ResponseId

\* C9 as amended: identifiers are not shared between saves or rows; every row
\* with a DocumentUrl has its blob at <ResponseId>/<filename> and that URL;
\* every attachment folder has at most one row, and exactly one when the save
\* that uploaded it answered 200.
C9_RowsReferToTheirFolder ==
    /\ \A r1, r2 \in Req :
        (/\ r1 # r2
         /\ "response_id" \in DOMAIN req[r1].loc
         /\ "response_id" \in DOMAIN req[r2].loc)
        => req[r1].loc.response_id # req[r2].loc.response_id
    /\ \A i, j \in 1..Len(rows) : i # j => rows[i].ResponseId # rows[j].ResponseId
    /\ \A i \in 1..Len(rows) :
        rows[i].DocumentUrl # <<>> =>
            \E r \in SavedBy(i) :
                LET b == <<rows[i].ResponseId, req[r].input.form.document>>
                IN  /\ b \in blobs
                    /\ rows[i].DocumentUrl = <<"https://account.blob", STORAGE_CONTAINER_NAME>> \o b
    /\ \A b \in blobs :
        /\ Cardinality(RowsOf(b[1])) <= 1
        /\ \E r \in Req :
            /\ req[r].handler = "saveResponse"
            /\ "response_id" \in DOMAIN req[r].loc
            /\ req[r].loc.response_id = b[1]
            /\ b[2] = req[r].input.form.document
            /\ (req[r].pc = "done" /\ req[r].resp.status = 200)
                    => Cardinality(RowsOf(b[1])) = 1

\* Two saves with attachments have returned: one has its row and its blob, the
\* other's database step failed and its folder has no row.
C9_Witness ==
    \E r1, r2 \in Req :
        /\ Handled(r1, "saveResponse") /\ req[r1].resp.status = 200
        /\ req[r1].loc.blob_name \in blobs
        /\ \E i \in 1..Len(rows) :
            /\ rows[i].ResponseId = req[r1].loc.response_id
            /\ rows[i].DocumentUrl # <<>>
        /\ Handled(r2, "saveResponse") /\ req[r2].resp.status = 500
        /\ req[r2].loc.blob_name \in blobs
        /\ RowsOf(req[r2].loc.response_id) = {}

DbOps == {"connect", "cursor", "execute", "commit", "close"}

\* C10: in saveResponse the upload comes before every database call; when the
\* upload fails no database call follows; when the upload succeeded and a
\* database call fails, the answer is the 500 storage error, no row carries
\* the request's identifier and the blob is still in the store.
C10_UploadBeforeInsertNoCompensation ==
    \A r \in Req :
        req[r].handler = "saveResponse" =>
            /\ \A i, j \in 1..Len(extCalls[r]) :
                (extCalls[r][i].op = "upload_blob" /\ extCalls[r][j].op \in DbOps) => i < j
            /\ \A i \in 1..Len(extCalls[r]) :
                /\ extCalls[r][i].op \in DbOps \cup {"upload_blob"}
                /\ (extCalls[r][i].op = "upload_blob" /\ extCalls[r][i].result = "error") =>
                    /\ i = Len(extCalls[r])
                    /\ req[r].pc = "done" /\ req[r].resp.status = 500
                    /\ RowsOf(req[r].loc.response_id) = {}
                /\ (/\ extCalls[r][i].op \in DbOps
                    /\ extCalls[r][i].result = "error"
                    /\ req[r].input.form.document # Null) =>
                    /\ req[r].pc = "done"
                    /\ req[r].resp = JsonResponse(500,
                            [error |-> "Failed to save response due to database issue."])
                    /\ RowsOf(req[r].loc.response_id) = {}
                    /\ <<req[r].loc.response_id, req[r].input.form.document>> \in blobs

\* A save whose upload succeeded and whose commit failed, beside a save whose
\* upload failed.
C10_Witness ==
    \E r1, r2 \in Req :
        /\ Handled(r1, "saveResponse")
        /\ Ops(r1) = <<"upload_blob", "connect", "cursor", "execute", "commit">>
        /\ extCalls[r1][5].result = "error"
        /\ req[r1].loc.blob_name \in blobs
        /\ Handled(r2, "saveResponse")
        /\ Ops(r2) = <<"upload_blob">>
        /\ extCalls[r2][1].result = "error"

\* -------------------------------------------------- claims under SpecRoles

\* The claims list of a handled POST whose body is an object with a list of
\* claim objects under "claims" (or with no "claims" at all).
WellFormedClaims ==
    /\ rolesReq.pc = "done"
    /\ rolesReq.input.method = "POST"
    /\ rolesReq.input.body.json = "object"
    /\ rolesReq.input.body.claims.kind \in {"list", "absent"}
    /\ \A i \in 1..Len(rolesReq.input.body.claims.items) :
            rolesReq.input.body.claims.items[i].obj

RoleTable ==
    [v \in {"complaintsysadmin", "complaintsysuser", "guest"} |->
        IF v = "guest" THEN "temp_guest" ELSE v]

\* C4: GetRoles returns, in encounter order and with repetitions kept, the
\* mapped val of each claim whose typ is "roles" or the role claim URI and whose
\* val is one of the three known values; nothing else.
C4_RolesMappedInOrder ==
    WellFormedClaims =>
        LET claims == rolesReq.input.body.claims.items
            kept == {i \in 1..Len(claims) :
                        /\ claims[i].typ \in {"roles", RoleClaimUri}
                        /\ claims[i].val \in DOMAIN RoleTable}
            roles == rolesReq.resp.body.roles
        IN  /\ rolesReq.resp.status = 200
            /\ Len(roles) = Cardinality(kept)
            /\ \A i \in kept :
                roles[Cardinality({j \in kept : j <= i})] = RoleTable[claims[i].val]

\* guest, then an unknown value, then guest again under the URI type: two
\* temp_guest entries come back.
C4_Witness ==
    /\ WellFormedClaims
    /\ rolesReq.input.body.claims.items =
            <<[obj |-> TRUE, typ |-> "roles", val |-> "guest"],
              [obj |-> TRUE, typ |-> "roles", val |-> "unknown"],
              [obj |-> TRUE, typ |-> RoleClaimUri, val |-> "guest"]>>
    /\ rolesReq.resp.body.roles = <<"temp_guest", "temp_guest">>

\* C5: every GetRoles request is answered 200 with a roles list.
C5_GetRolesNeverErrors ==
    rolesReq.pc = "done" =>
        /\ rolesReq.resp.status = 200
        /\ "roles" \in DOMAIN rolesReq.resp.body

\* ------------------------------------------------ claims under SpecStartup

====
